---- MODULE Spec2Model ----
(***************************************************************************)
(* GitGrade (siddhanto658/Git_Mirror): the /api/analyze serverless         *)
(* handler of api/analyze.ts and the /api/fetch-details handler of         *)
(* src/app/api/fetch-details.ts, modelled as state machines.  Every        *)
(* `await` of a handler and of its helpers is a point where the remote     *)
(* answers arrive in any order.  The synchronous code between two awaits   *)
(* runs to completion (one JavaScript job), so it is one atomic step of    *)
(* the model.                                                              *)
(*                                                                         *)
(*   Spec           one request to /api/analyze, any remote answers        *)
(*   CommitSpec     one analysis of a repository with a long history       *)
(*   TwoSpec        two interleaved invocations of /api/analyze            *)
(*   DetailsSpec    one request to /api/fetch-details                      *)
(*   EndpointsSpec  one request to each endpoint                           *)
(*   ParseSpec      the response validator                                 *)
(***************************************************************************)
EXTENDS Integers, Sequences, FiniteSets, TLC

VARIABLES
    request,        \* [method, owner, repo]: the VercelRequest
    env,            \* [GITHUB_TOKEN, AI_API_KEY]: process.env ("" = not set)
    pc,             \* the handler: "start" | "awaitAll" | "done"
    net,            \* [Calls -> "idle" | "inflight" | "done"]: remote requests
    issued,         \* [Calls -> Nat]: how often each remote request was sent
    treeReqBranch,  \* the branch named by the tree-listing request
    promise,        \* [Ops -> "none" | "pending" | "fulfilled" | "rejected"]
    failure,        \* [Ops -> error thrown by the operation, NoError if none]
    answer,         \* [Calls -> what the remote answered, NoAnswer before]
    defaultBranch,  \* branchInfo.default_branch
    tree,           \* value of fetchRepoTree
    readmeContent,  \* value of fetchFileContent: string | null
    commits,        \* value of fetchCommits
    history,        \* the commit history the remote held when it answered
    analysisData,   \* the handler's analysisData (NoData before the reduce)
    modelCalls,     \* requests sent to a generative model
    console,        \* console.log / console.error lines, in order
    responses,      \* the responses sent on the VercelResponse, in order
    inspected,      \* what the handler has read of its request and of
                    \* process.env so far, in order
    other,          \* a second invocation of the handler, suspended at an
                    \* await: its request and its local variables
    githubUrl,      \* page: the text of the URL input
    appState,       \* page: "initial" | "fetching" | "confirming" |
                    \*       "grading" | "results"
    error,          \* page: string | null
    repoDetails,    \* page: RepoDetails | null
    analysisReport, \* page: AnalysisReport | null
    fetching,       \* page: calls of /api/fetch-details awaiting their answer
    grading,        \* page: calls of /api/analyze awaiting their answer
    reply,          \* page: the answer a call received last (null before)
    dRequest,       \* fetch-details: [method, url], the VercelRequest
    dPc,            \* fetch-details: "start" | "awaitFetch" | "done"
    dInspected,     \* fetch-details: what the handler has read so far
    dQueries,       \* fetch-details: the [owner, repo] asked of the remote
    dAnswer,        \* fetch-details: what the remote answered (NoAnswer before)
    dResponses,     \* fetch-details: the responses sent, in order
    rawText,        \* a model completion handed to parseReport
    parseResult     \* what parseReport made of it (NotParsed before)

vars == <<request, env, pc, net, issued, treeReqBranch, promise, failure,
          answer, defaultBranch, tree, readmeContent, commits, history,
          analysisData, modelCalls, console, responses, inspected, other,
          githubUrl, appState, error, repoDetails, analysisReport,
          fetching, grading, reply,
          dRequest, dPc, dInspected, dQueries, dAnswer, dResponses,
          rawText, parseResult>>

\* The response validator is not part of the handler's run.
parserState == <<rawText, parseResult>>
\* /api/fetch-details is another function: its runs share nothing with a run
\* of /api/analyze but process.env.
\* The page runs in the browser: it shares no variable with the handlers.
pageState == <<githubUrl, appState, error, repoDetails, analysisReport,
               fetching, grading, reply>>
detailsState == <<dRequest, dPc, dInspected, dQueries, dAnswer, dResponses>>

(***************************************************************************)
(* Bounds of the model.                                                    *)
(***************************************************************************)
MaxTree == 2        \* entries of a tree listing
MaxReadmeLen == 1   \* characters of a README
MaxCommits == 1     \* commits of a commit list
MaxHistory == 102   \* commits of a long history (more than one page)
MaxInFlight == 2    \* calls of one endpoint the page has awaiting an answer

SeqsUpTo(S, n) == UNION {[1..k -> S] : k \in 0..n}

(***************************************************************************)
(* Inputs.                                                                 *)
(***************************************************************************)
Methods == {"POST", "GET"}
Names == {"", "o"}
Tokens == {"", "t"}
Branches == {"main", "dev"}

Calls == {"repo", "tree", "readme", "commits"}
Ops == {"fetchRepoTree", "fetchFileContent", "fetchCommits"}

\* GitHubTreeItem: the path (a string, as its characters) and the type.
TreeItems ==
    { [path |-> <<"a", ".", "t">>, type |-> "blob"],
      [path |-> <<"L">>,           type |-> "blob"],
      [path |-> <<"s">>,           type |-> "tree"] }
Trees == SeqsUpTo(TreeItems, MaxTree)

\* GitHubCommit: only commit.message is modelled.
CommitMessages == {"m1", "m2"}
CommitLists == SeqsUpTo(CommitMessages, MaxCommits)

\* A README body: only its length matters to the handler.
ReadmeTexts == SeqsUpTo({"x"}, MaxReadmeLen)

\* string | null
Null == [present |-> FALSE, text |-> <<>>]
Text(t) == [present |-> TRUE, text |-> t]

\* What node-fetch gives for one request: it rejects (failed), or it resolves
\* with a status and a body that is valid JSON or not.
Statuses == {200, 401, 404, 500}
HttpResponses ==
    [failed : {FALSE}, status : Statuses, json : BOOLEAN]
        \cup {[failed |-> TRUE, status |-> 0, json |-> FALSE]}
\* The README is asked for as raw text: its body is JSON only in an error answer.
RawResponses == {r \in HttpResponses : r.json <=> (~r.failed /\ r.status \notin {200, 404})}

ResponseOk(r) == r.status >= 200 /\ r.status <= 299

(***************************************************************************)
(* Errors: `new Error(message)`; a template string is kept as its parts.   *)
(***************************************************************************)
NoError == [text |-> "", status |-> 0, detail |-> ""]
NetworkError == [text |-> "request failed", status |-> 0, detail |-> ""]
JsonError == [text |-> "invalid json response body", status |-> 0, detail |-> ""]
NotFoundError ==
    [text |-> "Repository or resource not found on GitHub.", status |-> 0, detail |-> ""]
UnauthorizedError ==
    [text |-> "GitHub token is invalid or unauthorized.", status |-> 0, detail |-> ""]

\* errorData.message: the body's message, or the fallback of .catch()
ErrorDataMessage(r) == IF r.json THEN "msg" ELSE "Unknown GitHub API error"

ApiError(r) ==
    [text |-> "GitHub API error", status |-> r.status, detail |-> ErrorDataMessage(r)]

\* A callGitHubApi without the two special cases: every non-success status
\* gives the generic API error.
callGitHubApiGeneric(r) ==
    IF r.failed THEN NetworkError
    ELSE IF ~ResponseOk(r) THEN ApiError(r)
    ELSE IF ~r.json THEN JsonError
    ELSE NoError

\* callGitHubApi: the error it throws for the remote's answer r, NoError when
\* it returns the parsed body.
callGitHubApi(r) ==
    IF r.failed THEN NetworkError
    ELSE IF ~ResponseOk(r) THEN
        IF r.status = 404 THEN NotFoundError
        ELSE IF r.status = 401 THEN UnauthorizedError
        ELSE ApiError(r)
    ELSE IF ~r.json THEN JsonError
    ELSE NoError

NoAnswer == [failed |-> FALSE, status |-> 0, json |-> FALSE]

(***************************************************************************)
(* The basic analysis of the handler (the reduce step).                    *)
(***************************************************************************)
\* String.prototype.split(sep) on a string given as its characters.
RECURSIVE Split(_, _)
Split(s, sep) ==
    IF \E i \in 1..Len(s) : s[i] = sep
    THEN LET i == CHOOSE k \in 1..Len(s) :
                      s[k] = sep /\ \A j \in 1..(k - 1) : s[j] # sep
         IN  <<SubSeq(s, 1, i - 1)>> \o Split(SubSeq(s, i + 1, Len(s)), sep)
    ELSE <<s>>

IsBlob(item) == item.type = "blob"
IsTree(item) == item.type = "tree"

\* A count of every tree entry: `tree.length`.
FileCountAll(t) == Len(t)
FileCount(t) == Len(SelectSeq(t, IsBlob))
DirectoryCount(t) == Len(SelectSeq(t, IsTree))
\* !!readmeContent: null and the empty string are both falsy
HasReadme(rc) == rc.present /\ Len(rc.text) # 0
\* readmeContent?.length || 0
ReadmeLength(rc) == IF rc.present THEN Len(rc.text) ELSE 0
CommitCount(cs) == Len(cs)

Extension(item) ==
    LET parts == Split(item.path, ".") IN parts[Len(parts)]
HasExtension(item) == Len(Split(item.path, ".")) > 1

LanguageStats(t) ==
    LET files == SelectSeq(t, IsBlob)
        counted == {i \in 1..Len(files) : HasExtension(files[i])}
        exts == {Extension(files[i]) : i \in counted}
    IN  [e \in exts |-> Cardinality({i \in counted : Extension(files[i]) = e})]

NoData ==
    [owner |-> "", repo |-> "", fileCount |-> -1, directoryCount |-> -1,
     hasReadme |-> FALSE, readmeLength |-> -1, commitCount |-> -1,
     languageStats |-> <<>>]

\* A payload that also carries the first commit messages.
AnalysisDataWithSample(owner, repo, t, rc, cs) ==
    [owner |-> owner, repo |-> repo,
     fileCount |-> FileCount(t),
     directoryCount |-> DirectoryCount(t),
     hasReadme |-> HasReadme(rc),
     readmeLength |-> ReadmeLength(rc),
     commitCount |-> CommitCount(cs),
     languageStats |-> LanguageStats(t),
     commitMessageSample |-> SubSeq(cs, 1, IF Len(cs) < 20 THEN Len(cs) ELSE 20)]

AnalysisData(owner, repo, t, rc, cs) ==
    [owner |-> owner, repo |-> repo,
     fileCount |-> FileCount(t),
     directoryCount |-> DirectoryCount(t),
     hasReadme |-> HasReadme(rc),
     readmeLength |-> ReadmeLength(rc),
     commitCount |-> CommitCount(cs),
     languageStats |-> LanguageStats(t)]

(***************************************************************************)
(* The mock report.                                                        *)
(***************************************************************************)
\* Math.floor(Math.random() * 40) + 60, Math.random() in [0, 1)
MockScoreSpan == 40
MockScoreBase == 60

\* A score drawn over the whole scale and then raised by the base:
\* Math.floor(Math.random() * 100) + 60.
MockScoresTooHigh == {k + MockScoreBase : k \in 0..99}

MockScores == {k + MockScoreBase : k \in 0..(MockScoreSpan - 1)}

MockRoadmap ==
    << [title |-> "Improve Test Coverage",
        explanation |-> "Add more unit and integration tests"],
       [title |-> "Refine Commit Messages",
        explanation |-> "Adopt a conventional commit style"],
       [title |-> "Enhance README Documentation",
        explanation |-> "Expand your README.md"] >>

\* The summary template, kept as the values it interpolates.
MockSummary(owner, repo, fileCount, commitCount) ==
    [owner |-> owner, repo |-> repo, files |-> fileCount, commits |-> commitCount]

\* A summary that reports the directories as the files.
mockAiResponseWrongCount(data, score) ==
    [score |-> score,
     rating |-> "Intermediate",
     summary |-> MockSummary(data.owner, data.repo, data.directoryCount, data.commitCount),
     roadmap |-> MockRoadmap]

mockAiResponse(data, score) ==
    [score |-> score,
     rating |-> "Intermediate",
     summary |-> MockSummary(data.owner, data.repo, data.fileCount, data.commitCount),
     roadmap |-> MockRoadmap]

(***************************************************************************)
(* Responses.                                                              *)
(***************************************************************************)
Msg(text) == [text |-> text, status |-> 0, detail |-> ""]

Detail(status, msg) == [status |-> status, body |-> [detail |-> msg]]
Report(report) == [status |-> 200, body |-> report]

\* error.message || "An unexpected error occurred during analysis."
CatchDetail(err) ==
    IF err.text = "" THEN Msg("An unexpected error occurred during analysis.") ELSE err

NotParsed == [kind |-> "NotParsed"]

(***************************************************************************)
(* /api/fetch-details (src/app/api/fetch-details.ts): its request.         *)
(* A URL is a sequence of pieces of text.  The pieces are chosen so that   *)
(* each of the texts the handler searches for ("github.com", "github.com/",*)
(* "/", ".git") can begin and end only where a piece begins and ends.      *)
(***************************************************************************)
GithubCom == <<"github.com">>
GithubComSlash == <<"github.com", "/">>
Slash == <<"/">>
DotGit == <<".git">>

\* s has sep at position i.
HasAt(s, sep, i) ==
    /\ i + Len(sep) - 1 <= Len(s)
    /\ SubSeq(s, i, i + Len(sep) - 1) = sep

\* String.prototype.includes
Includes(s, sep) == \E i \in 1..Len(s) : HasAt(s, sep, i)

\* String.prototype.split with a non-empty separator: the texts between the
\* occurrences of sep, found from the left, empty texts included.
RECURSIVE SplitFrom(_, _, _, _)
SplitFrom(s, sep, i, piece) ==
    IF i > Len(s) THEN <<piece>>
    ELSE IF HasAt(s, sep, i)
         THEN <<piece>> \o SplitFrom(s, sep, i + Len(sep), <<>>)
         ELSE SplitFrom(s, sep, i + 1, Append(piece, s[i]))
SplitOn(s, sep) == SplitFrom(s, sep, 1, <<>>)

Scheme == <<"https:", "/", "/">>
Host == Scheme \o GithubCom
OwnerNames == {<<"o">>}
\* Repository names: r, r.github.io, .github, and each followed by .git
PlainRepoNames == {<<"r">>, <<"r", ".git", "hub.io">>, <<".git", "hub">>}
RepoSegments == PlainRepoNames \cup {n \o DotGit : n \in PlainRepoNames}
\* host/owner/repo and host/owner/repo.git
ShapedUrls == {Host \o Slash \o o \o Slash \o n : o \in OwnerNames, n \in RepoSegments}
OtherUrls ==
    {<<>>,                                             \* no url in the body
     <<"x">>,                                          \* not a GitHub URL
     Host,                                             \* https://github.com
     Host \o Slash \o <<"o">>,                         \* https://github.com/o
     Host \o Slash \o <<"o">> \o Slash,                \* https://github.com/o/
     Host \o Slash \o <<"o">> \o Slash \o <<"r">> \o Slash \o <<"x">>}
Urls == ShapedUrls \cup OtherUrls

NoDetailsRequest == [method |-> "POST", url |-> <<>>]
DetailsNotCalled ==
    /\ dRequest = NoDetailsRequest
    /\ dPc = "start"
    /\ dInspected = <<>>
    /\ dQueries = <<>>
    /\ dAnswer = NoAnswer
    /\ dResponses = <<>>

(***************************************************************************)
(* The page (app/page.tsx, `Home`): the values of its state.               *)
(***************************************************************************)
JsNull == [null |-> TRUE]
Some(v) == [null |-> FALSE, value |-> v]

\* useState("") / useState("initial") / useState(null)
PageLoaded ==
    /\ githubUrl = <<>>
    /\ appState = "initial"
    /\ error = JsNull
    /\ repoDetails = JsNull
    /\ analysisReport = JsNull
    /\ fetching = 0
    /\ grading = 0
    /\ reply = JsNull

\* No second invocation.
NoInvocation == [pc |-> "none"]

(***************************************************************************)
(* The state after construction: a request has arrived, nothing has run.   *)
(***************************************************************************)
Init ==
    /\ request \in [method : Methods, owner : Names, repo : Names]
    /\ env \in [GITHUB_TOKEN : Tokens, AI_API_KEY : Tokens]
    /\ pc = "start"
    /\ net = [c \in Calls |-> "idle"]
    /\ issued = [c \in Calls |-> 0]
    /\ treeReqBranch = ""
    /\ promise = [o \in Ops |-> "none"]
    /\ failure = [o \in Ops |-> NoError]
    /\ answer = [c \in Calls |-> NoAnswer]
    /\ defaultBranch = ""
    /\ tree = <<>>
    /\ readmeContent = Null
    /\ commits = <<>>
    /\ history = <<>>
    /\ analysisData = NoData
    /\ modelCalls = 0
    /\ console = <<>>
    /\ responses = <<>>
    /\ inspected = <<>>
    /\ other = NoInvocation
    /\ DetailsNotCalled
    /\ rawText = <<>>
    /\ parseResult = NotParsed
    /\ PageLoaded

fetchState == <<net, issued, treeReqBranch, promise, failure, answer,
                defaultBranch, tree, readmeContent, commits, history>>
handlerState == <<pc, analysisData, modelCalls, console, responses, inspected>>

(***************************************************************************)
(* The handler up to `await Promise.all([...])`.                           *)
(***************************************************************************)
\* The handler reads request.method, then request.body, then
\* process.env.GITHUB_TOKEN, then process.env.AI_API_KEY, and returns at the
\* first that fails its check.
Reads == <<"method", "body", "GITHUB_TOKEN", "AI_API_KEY">>
Inspects(k) == SubSeq(Reads, 1, k)

\* A method check that comes after the payload check.
MethodCheckedAfterBody ==
    /\ pc = "start"
    /\ request.method # "POST"
    /\ pc' = "done"
    /\ inspected' = <<"body", "method">>
    /\ responses' = Append(responses,
           IF request.owner = "" \/ request.repo = ""
           THEN Detail(400, Msg("Owner and repository name are required."))
           ELSE Detail(405, Msg("Method Not Allowed")))
    /\ UNCHANGED <<request, env, parserState, pageState, detailsState, other, fetchState,
                   analysisData, modelCalls, console>>

MethodNotAllowed ==
    /\ pc = "start"
    /\ request.method # "POST"
    /\ pc' = "done"
    /\ responses' = Append(responses, Detail(405, Msg("Method Not Allowed")))
    /\ inspected' = Inspects(1)
    /\ UNCHANGED <<request, env, parserState, pageState, detailsState, other, fetchState, analysisData, modelCalls, console>>

\* A payload check that looks at the owner only: `if (!owner)`.
PayloadOwnerOnlyChecked ==
    /\ pc = "start"
    /\ request.method = "POST"
    /\ \/ /\ request.owner = ""
          /\ pc' = "done"
          /\ responses' = Append(responses,
                 Detail(400, Msg("Owner and repository name are required.")))
          /\ inspected' = Inspects(2)
          /\ UNCHANGED <<net, issued, promise>>
       \/ /\ request.owner # "" /\ request.repo = ""
          /\ env.GITHUB_TOKEN # "" /\ env.AI_API_KEY # ""
          /\ pc' = "awaitAll"
          /\ net' = [c \in Calls |-> IF c \in {"repo", "readme", "commits"}
                                     THEN "inflight" ELSE net[c]]
          /\ issued' = [c \in Calls |-> IF c \in {"repo", "readme", "commits"}
                                        THEN issued[c] + 1 ELSE issued[c]]
          /\ promise' = [o \in Ops |-> "pending"]
          /\ inspected' = Inspects(4)
          /\ UNCHANGED responses
    /\ UNCHANGED <<request, env, parserState, pageState, detailsState, other, history,
                   treeReqBranch, failure, answer,
                   defaultBranch, tree, readmeContent, commits, analysisData,
                   modelCalls, console>>

PayloadMissing ==
    /\ pc = "start"
    /\ request.method = "POST"
    /\ request.owner = "" \/ request.repo = ""
    /\ pc' = "done"
    /\ responses' = Append(responses,
                           Detail(400, Msg("Owner and repository name are required.")))
    /\ inspected' = Inspects(2)
    /\ UNCHANGED <<request, env, parserState, pageState, detailsState, other, fetchState, analysisData, modelCalls, console>>

\* A GITHUB_TOKEN check placed before the payload check.
GithubTokenCheckedBeforePayload ==
    /\ pc = "start"
    /\ request.method = "POST"
    /\ env.GITHUB_TOKEN = ""
    /\ pc' = "done"
    /\ responses' = Append(responses,
                           Detail(500, Msg("GITHUB_TOKEN environment variable not set.")))
    /\ inspected' = <<"method", "GITHUB_TOKEN">>
    /\ UNCHANGED <<request, env, parserState, pageState, detailsState, other, fetchState,
                   analysisData, modelCalls, console>>

GithubTokenMissing ==
    /\ pc = "start"
    /\ request.method = "POST"
    /\ request.owner # "" /\ request.repo # ""
    /\ env.GITHUB_TOKEN = ""
    /\ pc' = "done"
    /\ responses' = Append(responses,
                           Detail(500, Msg("GITHUB_TOKEN environment variable not set.")))
    /\ inspected' = Inspects(3)
    /\ UNCHANGED <<request, env, parserState, pageState, detailsState, other, fetchState, analysisData, modelCalls, console>>

\* A handler that does not look at AI_API_KEY, which the mock never uses:
\* the fetches start without it.
AiApiKeyUnchecked ==
    /\ pc = "start"
    /\ request.method = "POST"
    /\ request.owner # "" /\ request.repo # ""
    /\ env.GITHUB_TOKEN # ""
    /\ env.AI_API_KEY = ""
    /\ pc' = "awaitAll"
    /\ net' = [c \in Calls |-> IF c \in {"repo", "readme", "commits"}
                               THEN "inflight" ELSE net[c]]
    /\ issued' = [c \in Calls |-> IF c \in {"repo", "readme", "commits"}
                                  THEN issued[c] + 1 ELSE issued[c]]
    /\ promise' = [o \in Ops |-> "pending"]
    /\ inspected' = Inspects(3)
    /\ UNCHANGED <<request, env, parserState, pageState, detailsState, other, history,
                   treeReqBranch, failure, answer,
                   defaultBranch, tree, readmeContent, commits, analysisData,
                   modelCalls, console, responses>>

AiApiKeyMissing ==
    /\ pc = "start"
    /\ request.method = "POST"
    /\ request.owner # "" /\ request.repo # ""
    /\ env.GITHUB_TOKEN # ""
    /\ env.AI_API_KEY = ""
    /\ pc' = "done"
    /\ responses' = Append(responses,
                           Detail(500, Msg("AI_API_KEY environment variable not set.")))
    /\ inspected' = Inspects(4)
    /\ UNCHANGED <<request, env, parserState, pageState, detailsState, other, fetchState, analysisData, modelCalls, console>>

\* The calls the three operations make before their first await, in the
\* order Promise.all's array literal evaluates them.
FirstCalls == {"repo", "readme", "commits"}

\* Awaiting fetchRepoTree before the other two operations are called.
StartFetchesSequential ==
    /\ pc = "start"
    /\ request.method = "POST"
    /\ request.owner # "" /\ request.repo # ""
    /\ env.GITHUB_TOKEN # ""
    /\ env.AI_API_KEY # ""
    /\ pc' = "awaitAll"
    /\ net' = [net EXCEPT !["repo"] = "inflight"]
    /\ issued' = [issued EXCEPT !["repo"] = issued["repo"] + 1]
    /\ promise' = [promise EXCEPT !["fetchRepoTree"] = "pending"]
    /\ inspected' = Inspects(4)
    /\ UNCHANGED <<request, env, parserState, pageState, detailsState, other, history,
                   treeReqBranch, failure, answer, defaultBranch,
                   tree, readmeContent, commits, analysisData, modelCalls,
                   console, responses>>

\* Promise.all([fetchRepoTree(..), fetchFileContent(..), fetchCommits(..)]):
\* each async function runs to its first await, which sends its request.
StartFetches ==
    /\ pc = "start"
    /\ request.method = "POST"
    /\ request.owner # "" /\ request.repo # ""
    /\ env.GITHUB_TOKEN # ""
    /\ env.AI_API_KEY # ""
    /\ pc' = "awaitAll"
    /\ net' = [c \in Calls |-> IF c \in FirstCalls THEN "inflight" ELSE net[c]]
    /\ issued' = [c \in Calls |-> IF c \in FirstCalls THEN issued[c] + 1 ELSE issued[c]]
    /\ promise' = [o \in Ops |-> "pending"]
    /\ inspected' = Inspects(4)
    /\ UNCHANGED <<request, env, parserState, pageState, detailsState, other, history,
                   treeReqBranch, failure, answer, defaultBranch,
                   tree, readmeContent, commits, analysisData, modelCalls,
                   console, responses>>

(***************************************************************************)
(* The handler after `await Promise.all([...])`.  Promise.all rejects with *)
(* the first rejection and fulfils when all three have fulfilled; the      *)
(* handler's continuation runs in the same job as the settlement that      *)
(* decides it.  p, t, rc, cs and con are the promises, the values and the  *)
(* console after that settlement, err is the error it threw (NoError if    *)
(* it returned).                                                           *)
(***************************************************************************)
\* lines 133-181: basic analysis, the log line, the mock report, status 200
Analyse(t, rc, cs, con) ==
    \E score \in MockScores :
        LET data == AnalysisData(request.owner, request.repo, t, rc, cs) IN
        /\ analysisData' = data
        /\ console' = Append(con, "Analysis Data for AI")
        /\ responses' = Append(responses, Report(mockAiResponse(data, score)))
        /\ pc' = "done"

\* lines 183-186: the catch block
Catch(err, con) ==
    /\ console' = Append(con, "Analysis API Error")
    /\ responses' = Append(responses, Detail(500, CatchDetail(err)))
    /\ pc' = "done"
    /\ UNCHANGED analysisData

\* A fan-in that does not wait for the README.
AllFulfilledButReadme(p) == \A o \in Ops \ {"fetchFileContent"} : p[o] = "fulfilled"

AllFulfilled(p) == \A o \in Ops : p[o] = "fulfilled"

\* A fan-in that waits for all three to settle and analyses whatever arrived
\* (Promise.allSettled instead of Promise.all).
ResumeAllSettled(p, err, t, rc, cs, con) ==
    IF pc = "awaitAll" /\ \A o \in Ops : p[o] \in {"fulfilled", "rejected"}
    THEN Analyse(t, rc, cs, con)
    ELSE /\ console' = con
         /\ UNCHANGED <<pc, analysisData, responses>>

\* A handler without the catch block: a rejection is never answered.
ResumeWithoutCatch(p, err, t, rc, cs, con) ==
    IF pc = "awaitAll" /\ err = NoError /\ AllFulfilled(p) THEN Analyse(t, rc, cs, con)
    ELSE /\ console' = con
         /\ UNCHANGED <<pc, analysisData, responses>>

\* A handler that answers at every rejection, also after it has answered
\* (a `.catch` on each operation instead of one catch around Promise.all).
ResumeEveryRejection(p, err, t, rc, cs, con) ==
    IF err # NoError THEN Catch(err, con)
    ELSE IF pc = "awaitAll" /\ AllFulfilled(p) THEN Analyse(t, rc, cs, con)
    ELSE /\ console' = con
         /\ UNCHANGED <<pc, analysisData, responses>>

Resume(p, err, t, rc, cs, con) ==
    IF pc = "awaitAll" /\ err # NoError THEN Catch(err, con)
    ELSE IF pc = "awaitAll" /\ AllFulfilled(p) THEN Analyse(t, rc, cs, con)
    ELSE /\ console' = con
         /\ UNCHANGED <<pc, analysisData, responses>>

Settle(op, err) ==
    /\ promise' = [promise EXCEPT ![op] = IF err = NoError THEN "fulfilled" ELSE "rejected"]
    /\ failure' = [failure EXCEPT ![op] = err]

Answered(call, r) ==
    /\ net[call] = "inflight"
    /\ answer' = [answer EXCEPT ![call] = r]

(***************************************************************************)
(* fetchRepoTree                                                           *)
(***************************************************************************)
\* A listing request that names a fixed branch instead of the resolved one.
TreeRequestBranchHardcoded(branch) == "main"

\* line 61: the branch interpolated into the listing request's path
TreeRequestBranch(branch) == branch

\* line 57 returns: the default branch is known, line 60 sends the listing
\* request for it.
RepoAnswerOk(r, branch) ==
    /\ Answered("repo", r)
    /\ callGitHubApi(r) = NoError
    /\ defaultBranch' = branch
    /\ treeReqBranch' = TreeRequestBranch(branch)
    /\ net' = [net EXCEPT !["repo"] = "done", !["tree"] = "inflight"]
    /\ issued' = [issued EXCEPT !["tree"] = issued["tree"] + 1]
    /\ UNCHANGED <<request, env, parserState, pageState, detailsState, other, history, promise,
                   failure, tree, readmeContent, commits,
                   handlerState>>

\* line 57 throws: fetchRepoTree rejects.
RepoAnswerError(r) ==
    /\ Answered("repo", r)
    /\ callGitHubApi(r) # NoError
    /\ net' = [net EXCEPT !["repo"] = "done"]
    /\ Settle("fetchRepoTree", callGitHubApi(r))
    /\ Resume(promise', callGitHubApi(r), tree, readmeContent, commits, console)
    /\ UNCHANGED <<request, env, parserState, pageState, detailsState, other, inspected, history,
                   issued, treeReqBranch, defaultBranch, tree,
                   readmeContent, commits, modelCalls>>

\* lines 60-64
TreeAnswer(r, t) ==
    /\ Answered("tree", r)
    /\ net' = [net EXCEPT !["tree"] = "done"]
    /\ Settle("fetchRepoTree", callGitHubApi(r))
    /\ tree' = IF callGitHubApi(r) = NoError THEN t ELSE tree
    /\ Resume(promise', callGitHubApi(r), tree', readmeContent, commits, console)
    /\ UNCHANGED <<request, env, parserState, pageState, detailsState, other, inspected, history,
                   issued, treeReqBranch, defaultBranch,
                   readmeContent, commits, modelCalls>>

(***************************************************************************)
(* fetchFileContent                                                        *)
(***************************************************************************)
\* Whether the try block of fetchFileContent throws for the remote's answer.
ReadmeThrows(r) == r.failed \/ (r.status # 404 /\ ~ResponseOk(r))

\* The value fetchFileContent returns: the catch block turns every throw
\* into null.
fetchFileContent(r, text) ==
    IF ReadmeThrows(r) THEN Null
    ELSE IF r.status = 404 THEN Null
    ELSE Text(text)

ReadmeAnswer(r, text) ==
    /\ Answered("readme", r)
    /\ net' = [net EXCEPT !["readme"] = "done"]
    /\ Settle("fetchFileContent", NoError)
    /\ readmeContent' = fetchFileContent(r, text)
    /\ Resume(promise', NoError, tree, readmeContent', commits,
              IF ReadmeThrows(r)
              THEN Append(console, "Error fetching file content")
              ELSE console)
    /\ UNCHANGED <<request, env, parserState, pageState, detailsState, other, inspected, history,
                   issued, treeReqBranch, defaultBranch, tree,
                   commits, modelCalls>>

(***************************************************************************)
(* fetchCommits                                                            *)
(***************************************************************************)
\* `commits?per_page=100`: the remote answers with the first page of its
\* history, newest first, of at most per_page commits.
PerPage == 100
\* A listing that is not paged: the whole history.
PageUnlimited(h, perPage) == h
Page(h, perPage) == SubSeq(h, 1, IF Len(h) < perPage THEN Len(h) ELSE perPage)

CommitsAnswer(r, h) ==
    /\ Answered("commits", r)
    /\ net' = [net EXCEPT !["commits"] = "done"]
    /\ Settle("fetchCommits", callGitHubApi(r))
    /\ history' = h
    /\ commits' = IF callGitHubApi(r) = NoError THEN Page(h, PerPage) ELSE commits
    /\ Resume(promise', callGitHubApi(r), tree, readmeContent, commits', console)
    /\ UNCHANGED <<request, env, parserState, pageState, detailsState, other, inspected,
                   issued, treeReqBranch, defaultBranch, tree,
                   readmeContent, modelCalls>>

\* The answers a remote can give: a body goes with a success only.
OkResponses == {r \in HttpResponses : callGitHubApi(r) = NoError}
ErrorResponses == HttpResponses \ OkResponses

Next ==
    \/ MethodNotAllowed
    \/ PayloadMissing
    \/ GithubTokenMissing
    \/ AiApiKeyMissing
    \/ StartFetches
    \/ \E r \in OkResponses, b \in Branches : RepoAnswerOk(r, b)
    \/ \E r \in ErrorResponses : RepoAnswerError(r)
    \/ \E r \in OkResponses, t \in Trees : TreeAnswer(r, t)
    \/ \E r \in ErrorResponses : TreeAnswer(r, <<>>)
    \/ \E r \in RawResponses, text \in ReadmeTexts :
           ReadmeAnswer(r, IF ResponseOk(r) /\ ~r.failed THEN text ELSE <<>>)
    \/ \E r \in OkResponses, cs \in CommitLists : CommitsAnswer(r, cs)
    \/ \E r \in ErrorResponses : CommitsAnswer(r, <<>>)

Spec == Init /\ [][Next]_vars

(***************************************************************************)
(* Properties of the handler.                                              *)
(***************************************************************************)
Responded == Len(responses) > 0
Succeeded == \E i \in 1..Len(responses) : responses[i].status = 200
Failed == \E i \in 1..Len(responses) : responses[i].status # 200

\* The remote answered the call, and callGitHubApi throws for that answer.
RemoteFailed(c) ==
    /\ net[c] = "done"
    /\ \/ answer[c].failed
       \/ answer[c].status < 200 \/ answer[c].status > 299
       \/ ~answer[c].json
RemoteSucceeded(c) == net[c] = "done" /\ ~RemoteFailed(c)

\* The README request failed for a reason other than "not found".
ReadmeRemoteFailed ==
    /\ net["readme"] = "done"
    /\ \/ answer["readme"].failed
       \/ answer["readme"].status \notin {200, 404}
ReadmeNotFound ==
    /\ net["readme"] = "done"
    /\ ~answer["readme"].failed
    /\ answer["readme"].status = 404

\* C1: fail-fast fan-in.  Whenever the tree chain (default-branch request or
\* listing request) or the commit request has failed, Analyze has answered
\* with a failure and with no report, also when the other fetches succeeded.
C1_FailFastFanIn ==
    (RemoteFailed("repo") \/ RemoteFailed("tree") \/ RemoteFailed("commits"))
        => /\ Responded
           /\ ~Succeeded
           /\ responses[1].status = 500
           /\ analysisData = NoData

\* The commit fetch failed while the tree and a present README succeeded.
C1_Witness ==
    /\ RemoteFailed("commits")
    /\ RemoteSucceeded("repo") /\ RemoteSucceeded("tree")
    /\ net["readme"] = "done" /\ readmeContent.present
    /\ Failed

\* C2: fetchFileContent distinguishes absence from failure.  A "not found"
\* answer to the README request gives the absent result and the request goes
\* on; any other failure of the README request rejects the operation and
\* Analyze fails.
C2_ReadmeFailurePropagates ==
    /\ ReadmeNotFound =>
           promise["fetchFileContent"] = "fulfilled" /\ readmeContent = Null
    /\ ReadmeRemoteFailed =>
           promise["fetchFileContent"] = "rejected" /\ ~Succeeded

\* C3: fan-in ordering.  The reduce step has run only if all three fetch
\* operations have fulfilled, and it runs in the step in which the last of
\* them does.
C3_ReduceAfterFanIn ==
    /\ [](analysisData # NoData =>
              \A o \in Ops : promise[o] = "fulfilled")
    /\ [][analysisData # analysisData' =>
              /\ \E o \in Ops : promise[o] = "pending" /\ promise'[o] = "fulfilled"
              /\ \A o \in Ops : promise'[o] = "fulfilled"]_vars

\* The reduce has run on a tree, a present README and a commit list.
C3_Witness ==
    /\ analysisData # NoData
    /\ analysisData.fileCount > 0
    /\ analysisData.hasReadme
    /\ analysisData.commitCount > 0

\* C4: no retries and short-circuit.  Every remote request is sent at most
\* once; once a remote request has failed (for the README: otherwise than by
\* "not found") neither the reduce nor the report construction runs; and a
\* failure ends in exactly one failure response.
C4_NoRetryShortCircuit ==
    /\ \A c \in Calls : issued[c] <= 1
    /\ (ReadmeRemoteFailed \/ \E c \in Calls \ {"readme"} : RemoteFailed(c))
           => analysisData = NoData /\ ~Succeeded
    /\ pc = "done" => Len(responses) = 1

C6_ReportSchema ==
    \A i \in 1..Len(responses) :
        responses[i].status = 200 =>
            LET report == responses[i].body IN
            /\ report.score \in 0..100
            /\ Len(report.roadmap) = 3
            /\ \A k \in 1..3 :
                   {"title", "explanation"} \subseteq DOMAIN report.roadmap[k]

\* A report with the highest score the mock draws.
C6_Witness ==
    Succeeded /\ responses[1].body.score = 99

\* C9: default-branch prerequisite.  The listing request is sent only after
\* the default-branch request succeeded, and names the branch it returned;
\* after a failed default-branch request no listing request is sent.
C9_DefaultBranchFirst ==
    /\ issued["tree"] > 0 =>
           /\ RemoteSucceeded("repo")
           /\ defaultBranch \in Branches
           /\ treeReqBranch = defaultBranch
    /\ RemoteFailed("repo") => issued["tree"] = 0 /\ net["tree"] = "idle"

\* The listing was requested for a default branch other than "main".
C9_Witness ==
    net["tree"] = "done" /\ treeReqBranch = "dev"

\* C10: concurrent issue.  The three operations are started in one step, each
\* with its first request sent, before anything is awaited; from then on the
\* handler has resumed exactly if one operation has rejected or all three
\* have fulfilled.
C10_ConcurrentIssue ==
    LET started == \E o \in Ops : promise[o] # "none" IN
    /\ pc = "awaitAll" => started
    /\ started =>
           /\ \A o \in Ops : promise[o] # "none"
           /\ \A c \in {"repo", "readme", "commits"} : issued[c] = 1
           /\ pc = "done" <=>
                  \/ \E o \in Ops : promise[o] = "rejected"
                  \/ \A o \in Ops : promise[o] = "fulfilled"

\* Two operations have fulfilled and the handler still waits for the third.
C10_Witness ==
    /\ pc = "awaitAll"
    /\ promise["fetchFileContent"] = "fulfilled"
    /\ promise["fetchCommits"] = "fulfilled"
    /\ promise["fetchRepoTree"] = "pending"
    /\ net["tree"] = "inflight"

(***************************************************************************)
(* The response validator, parseReport(rawText).  A completion is a        *)
(* sequence of tokens: white space, a code fence, a language tag, prose,   *)
(* or the text of one JSON document, which is kept as the value it         *)
(* denotes.                                                                *)
(***************************************************************************)
MaxRoadmap == 4     \* entries of a roadmap the model may send

RoadmapLength == 3
ScoreMin == 0
ScoreMax == 100

\* A JSON value at the key "score": absent, a string, or a number.
ScoreValues ==
    {[kind |-> "missing", n |-> 0], [kind |-> "string", n |-> 0]}
        \cup [kind : {"number"}, n : {-1, 0, 100, 150}]

\* A roadmap entry, by the keys it has.
RoadmapItems ==
    {[title |-> TRUE, explanation |-> TRUE],
     [title |-> FALSE, explanation |-> TRUE],
     [title |-> TRUE, explanation |-> FALSE]}

\* A JSON value at the key "roadmap": absent, a string, or an array.
RoadmapValues ==
    {[kind |-> "missing", items |-> <<>>], [kind |-> "string", items |-> <<>>]}
        \cup [kind : {"array"}, items : SeqsUpTo(RoadmapItems, MaxRoadmap)]

\* A JSON object: score, roadmap, and which of the two string keys it has.
Documents ==
    [score : ScoreValues, roadmap : RoadmapValues,
     strings : {{"rating", "summary"}, {"rating"}, {"summary"}}]

NoDocument ==
    [score |-> [kind |-> "missing", n |-> 0],
     roadmap |-> [kind |-> "missing", items |-> <<>>],
     strings |-> {}]

Ws == [tok |-> "ws", doc |-> NoDocument]
Fence == [tok |-> "fence", doc |-> NoDocument]
Lang == [tok |-> "lang", doc |-> NoDocument]
Prose == [tok |-> "prose", doc |-> NoDocument]
Json(d) == [tok |-> "json", doc |-> d]

\* The completions: a body, bare or inside a fence with or without a language
\* tag and a closing fence, with or without white space around it.
Bodies ==
    {<<>>, <<Prose>>} \cup {<<Json(d)>> : d \in Documents}
        \cup {<<Json(d), Ws, Prose>> : d \in {x \in Documents : x.score.n = 100}}
Openers == {<<>>, <<Fence, Ws>>, <<Fence, Lang, Ws>>}
Closers == {<<>>, <<Ws, Fence>>}
Margins == {<<>>, <<Ws>>}
Completions ==
    {m \o o \o b \o c \o m : m \in Margins, o \in Openers, b \in Bodies, c \in Closers}

\* String.prototype.trim on tokens
RECURSIVE TrimLeft(_)
TrimLeft(t) == IF t # <<>> /\ Head(t) = Ws THEN TrimLeft(Tail(t)) ELSE t
RECURSIVE TrimRight(_)
TrimRight(t) ==
    IF t # <<>> /\ t[Len(t)] = Ws THEN TrimRight(SubSeq(t, 1, Len(t) - 1)) ELSE t
Trim(t) == TrimRight(TrimLeft(t))

\* A strip that takes the opening fence and leaves its language tag.
StripOpenerKeepTag(t) ==
    IF t # <<>> /\ Head(t) = Fence THEN Tail(t) ELSE t

\* The leading fence and its optional language tag
StripOpener(t) ==
    IF t # <<>> /\ Head(t) = Fence
    THEN IF Tail(t) # <<>> /\ Head(Tail(t)) = Lang THEN Tail(Tail(t)) ELSE Tail(t)
    ELSE t

\* The trailing fence
StripCloser(t) ==
    IF t # <<>> /\ t[Len(t)] = Fence THEN SubSeq(t, 1, Len(t) - 1) ELSE t

StripFences(t) == Trim(StripCloser(StripOpener(Trim(t))))

Malformed(reason) == [kind |-> "MalformedModelOutput", reason |-> reason]
Parsed(report) == [kind |-> "AnalysisReport", report |-> report]

\* A range check that forgets the upper end.
ValidScoreNoUpperBound(v) == v.kind = "number" /\ v.n >= ScoreMin

ValidScore(v) == v.kind = "number" /\ v.n >= ScoreMin /\ v.n <= ScoreMax

ValidRoadmap(v) ==
    /\ v.kind = "array"
    /\ Len(v.items) = RoadmapLength
    /\ \A i \in 1..Len(v.items) : v.items[i].title /\ v.items[i].explanation

\* The report a valid document denotes.
ReportOf(d) ==
    [score |-> d.score.n, rating |-> "rating", summary |-> "summary",
     roadmap |-> [i \in 1..Len(d.roadmap.items) |->
                      [title |-> "title", explanation |-> "explanation"]]]

Validate(d) ==
    IF d.score.kind = "missing" \/ d.roadmap.kind = "missing"
          \/ d.strings # {"rating", "summary"}
    THEN Malformed("missing key")
    ELSE IF ~ValidScore(d.score) THEN Malformed("score")
    ELSE IF ~ValidRoadmap(d.roadmap) THEN Malformed("roadmap")
    ELSE Parsed(ReportOf(d))

parseReport(text) ==
    LET t == StripFences(text) IN
    IF Len(t) = 1 /\ t[1].tok = "json" THEN Validate(t[1].doc)
    ELSE Malformed("not a structured object")

\* The handler's variables are those of a request that has not run; the
\* completion is any of the completions.
ParseInit ==
    /\ request = [method |-> "POST", owner |-> "o", repo |-> "o"]
    /\ env = [GITHUB_TOKEN |-> "t", AI_API_KEY |-> "t"]
    /\ pc = "start"
    /\ net = [c \in Calls |-> "idle"]
    /\ issued = [c \in Calls |-> 0]
    /\ treeReqBranch = ""
    /\ promise = [o \in Ops |-> "none"]
    /\ failure = [o \in Ops |-> NoError]
    /\ answer = [c \in Calls |-> NoAnswer]
    /\ defaultBranch = ""
    /\ tree = <<>>
    /\ readmeContent = Null
    /\ commits = <<>>
    /\ history = <<>>
    /\ analysisData = NoData
    /\ modelCalls = 0
    /\ console = <<>>
    /\ responses = <<>>
    /\ inspected = <<>>
    /\ other = NoInvocation
    /\ DetailsNotCalled
    /\ rawText \in Completions
    /\ parseResult = NotParsed
    /\ PageLoaded

Parse ==
    /\ parseResult = NotParsed
    /\ parseResult' = parseReport(rawText)
    /\ UNCHANGED <<request, env, fetchState, handlerState, pageState, detailsState,
                   other, rawText>>

ParseNext == Parse

ParseSpec == ParseInit /\ [][ParseNext]_vars

\* The document a completion carries, NoDocument if it carries none.
DocumentIn(text) ==
    IF \E i \in 1..Len(text) : text[i].tok = "json"
    THEN text[CHOOSE i \in 1..Len(text) : text[i].tok = "json"].doc
    ELSE NoDocument

\* C7: parseReport is total and defensive.  A completion that is empty, or
\* whose document lacks a required key, has a roadmap of a length other than
\* 3, or has a score outside [0, 100] or a score that is no number, gives
\* MalformedModelOutput: never a report, and never anything else.
C7_ParseRejects ==
    parseResult # NotParsed =>
        /\ parseResult.kind \in {"AnalysisReport", "MalformedModelOutput"}
        /\ LET d == DocumentIn(rawText) IN
           (\/ rawText = <<>>
            \/ d.strings # {"rating", "summary"}
            \/ d.roadmap.kind # "array"
            \/ Len(d.roadmap.items) # 3
            \/ d.score.kind # "number"
            \/ d.score.n < 0
            \/ d.score.n > 100)
               => parseResult.kind = "MalformedModelOutput"

\* A fenced document with a score of 150 and four roadmap entries was refused.
C7_Witness ==
    /\ parseResult # NotParsed
    /\ parseResult.kind = "MalformedModelOutput"
    /\ rawText # <<>>
    /\ Head(rawText) = Fence
    /\ DocumentIn(rawText).score = [kind |-> "number", n |-> 150]
    /\ Len(DocumentIn(rawText).roadmap.items) = 4

\* A document that meets the whole schema.
WellFormed(d) ==
    /\ d.strings = {"rating", "summary"}
    /\ d.score.kind = "number" /\ d.score.n >= 0 /\ d.score.n <= 100
    /\ d.roadmap.kind = "array" /\ Len(d.roadmap.items) = 3
    /\ \A i \in 1..3 : d.roadmap.items[i].title /\ d.roadmap.items[i].explanation

\* A completion that is one document inside an opening and a closing fence.
Fenced(text) ==
    /\ \E i \in 1..Len(text) : text[i] = Fence
    /\ text[Len(TrimRight(text))] = Fence
    /\ TrimLeft(text)[1] = Fence
    /\ Cardinality({i \in 1..Len(text) : text[i].tok \in {"json", "prose"}}) = 1

\* C8: fence round trip.  A well-formed completion inside code-fence markers,
\* with or without a language tag and surrounding white space, parses to the
\* report that the same completion parses to when bare.
C8_FenceRoundTrip ==
    (parseResult # NotParsed /\ Fenced(rawText) /\ WellFormed(DocumentIn(rawText)))
        => /\ parseResult.kind = "AnalysisReport"
           /\ parseResult = parseReport(<<Json(DocumentIn(rawText))>>)

\* A well-formed document in a fence with a language tag and white space
\* around it was parsed.
C8_Witness ==
    /\ parseResult # NotParsed
    /\ Len(rawText) > 3
    /\ rawText[1] = Ws /\ rawText[2] = Fence /\ rawText[3] = Lang
    /\ WellFormed(DocumentIn(rawText))
    /\ parseResult.kind = "AnalysisReport"

(***************************************************************************)
(* Errors, configuration and input of the handler.                         *)
(***************************************************************************)
\* The operation a remote request belongs to.
OpOf(c) ==
    IF c = "readme" THEN "fetchFileContent"
    ELSE IF c = "commits" THEN "fetchCommits"
    ELSE "fetchRepoTree"

\* The remote answered the call with a status that is no success.
AnsweredNonSuccess(c) ==
    /\ net[c] = "done"
    /\ ~answer[c].failed
    /\ answer[c].status < 200 \/ answer[c].status > 299

\* C11: remote error taxonomy, for the requests made through callGitHubApi
\* (repository, tree listing, commits).  Status 404 gives the not-found
\* error, 401 the unauthorized error, any other non-success status the API
\* error with that status and the remote's message; and the failure response
\* carries, unchanged, the error of the operation whose rejection resumed
\* the handler.
C11_ErrorTaxonomy ==
    /\ [](\A c \in {"repo", "tree", "commits"} :
              AnsweredNonSuccess(c) =>
                  /\ promise[OpOf(c)] = "rejected"
                  /\ failure[OpOf(c)] =
                         IF answer[c].status = 404 THEN NotFoundError
                         ELSE IF answer[c].status = 401 THEN UnauthorizedError
                         ELSE [text |-> "GitHub API error",
                               status |-> answer[c].status,
                               detail |-> IF answer[c].json THEN "msg"
                                          ELSE "Unknown GitHub API error"])
    /\ [][(pc = "awaitAll" /\ pc' = "done" /\ responses'[1].status # 200) =>
              \E o \in Ops :
                  /\ promise[o] = "pending" /\ promise'[o] = "rejected"
                  /\ responses' = <<[status |-> 500,
                                     body |-> [detail |-> failure'[o]]]>>]_vars

\* The commit request was answered 401 after the tree chain had succeeded,
\* and the failure response carries the unauthorized error.
C11_Witness ==
    /\ RemoteSucceeded("tree")
    /\ AnsweredNonSuccess("commits") /\ answer["commits"].status = 401
    /\ Failed
    /\ responses[1].body.detail = UnauthorizedError

\* A credential is absent from the environment.
ConfigMissing == env.GITHUB_TOKEN = "" \/ env.AI_API_KEY = ""

\* The request passes the method and payload checks.
WellFormedRequest ==
    request.method = "POST" /\ request.owner # "" /\ request.repo # ""

ConfigFailures ==
    { [status |-> 500,
       body |-> [detail |-> [text |-> "GITHUB_TOKEN environment variable not set.",
                             status |-> 0, detail |-> ""]]],
      [status |-> 500,
       body |-> [detail |-> [text |-> "AI_API_KEY environment variable not set.",
                             status |-> 0, detail |-> ""]]] }

\* C12: configuration errors are distinct.  With a credential absent no remote
\* request is ever sent, a well-formed request is answered with the
\* configuration failure that names the absent variable, and no failure
\* response of a request that reached the remote equals a configuration
\* failure (the two differ in the detail text; both carry status 500).
C12_ConfigDistinct ==
    /\ ConfigMissing => \A c \in Calls : issued[c] = 0
    /\ (ConfigMissing /\ WellFormedRequest /\ pc = "done") =>
           /\ Len(responses) = 1
           /\ responses[1] \in ConfigFailures
           /\ responses[1].body.detail.text =
                  IF env.GITHUB_TOKEN = ""
                  THEN "GITHUB_TOKEN environment variable not set."
                  ELSE "AI_API_KEY environment variable not set."
    /\ (\E c \in Calls : issued[c] > 0) =>
           \A i \in 1..Len(responses) : responses[i] \notin ConfigFailures

\* A well-formed request with only the model credential absent was answered.
C12_Witness ==
    /\ WellFormedRequest
    /\ env.GITHUB_TOKEN # "" /\ env.AI_API_KEY = ""
    /\ pc = "done"
    /\ responses[1] \in ConfigFailures

\* C13: input precondition.  A request whose owner or repo is empty is
\* answered with a client error (400 when it is a POST) and no remote request
\* is sent for it; a remote request is sent only when both are non-empty.
C13_PayloadRequired ==
    /\ (request.owner = "" \/ request.repo = "") =>
           /\ \A c \in Calls : issued[c] = 0 /\ net[c] = "idle"
           /\ pc = "done" =>
                  /\ Len(responses) = 1
                  /\ responses[1].status >= 400 /\ responses[1].status <= 499
                  /\ request.method = "POST" => responses[1].status = 400
    /\ (\E c \in Calls : issued[c] > 0) => request.owner # "" /\ request.repo # ""

\* A POST with an owner, an empty repo and both credentials was refused.
C13_Witness ==
    /\ request = [method |-> "POST", owner |-> "o", repo |-> ""]
    /\ env.GITHUB_TOKEN # "" /\ env.AI_API_KEY # ""
    /\ pc = "done"
    /\ responses[1].status = 400

IsPrefix(p, q) == Len(p) <= Len(q) /\ \A i \in 1..Len(p) : p[i] = q[i]
PayloadFields ==
    {"owner", "repo", "fileCount", "directoryCount", "hasReadme",
     "readmeLength", "commitCount", "languageStats"}

C15_HasReadmeIffPresent ==
    Succeeded =>
        /\ analysisData.hasReadme <=> readmeContent.present
        /\ analysisData.readmeLength =
               (IF readmeContent.present THEN Len(readmeContent.text) ELSE 0)

BlobPositions(t) == {i \in 1..Len(t) : t[i].type = "blob"}
TreePositions(t) == {i \in 1..Len(t) : t[i].type = "tree"}

\* C16: on success fileCount is the number of blob entries of the tree the
\* remote returned; directory entries are not counted as files (a tree of
\* directories only has fileCount 0).
C16_FileCountIsBlobs ==
    Succeeded =>
        /\ analysisData.fileCount = Cardinality(BlobPositions(tree))
        /\ analysisData.fileCount + Cardinality(TreePositions(tree)) <= Len(tree)

\* A successful analysis of a tree holding a directory and then a file.
C16_Witness ==
    /\ Succeeded
    /\ Len(tree) = 2
    /\ tree[1].type = "tree" /\ tree[2].type = "blob"
    /\ analysisData.fileCount = 1

(***************************************************************************)
(* One analysis of a repository whose history may be longer than a page:   *)
(* every remote request succeeds, the tree is empty, and the history has   *)
(* any length up to MaxHistory.                                            *)
(***************************************************************************)
History(n) == [i \in 1..n |-> "m1"]
Histories == {History(n) : n \in 0..MaxHistory}
Ok200 == [failed |-> FALSE, status |-> 200, json |-> TRUE]
Raw200 == [failed |-> FALSE, status |-> 200, json |-> FALSE]

CommitInit ==
    /\ Init
    /\ request = [method |-> "POST", owner |-> "o", repo |-> "o"]
    /\ env = [GITHUB_TOKEN |-> "t", AI_API_KEY |-> "t"]

CommitNext ==
    \/ StartFetches
    \/ RepoAnswerOk(Ok200, "main")
    \/ TreeAnswer(Ok200, <<>>)
    \/ ReadmeAnswer(Raw200, <<"x">>)
    \/ \E h \in Histories : CommitsAnswer(Ok200, h)

CommitSpec == CommitInit /\ [][CommitNext]_vars

\* C17: on success commitCount is the length of the commit sequence the
\* commit request retrieved, that sequence is the newest end of the remote's
\* history, and commitCount is at most 100 however long the history is.
C17_CommitCountWithinLimit ==
    Succeeded =>
        /\ analysisData.commitCount = Len(commits)
        /\ IsPrefix(commits, history)
        /\ analysisData.commitCount <= 100
        /\ Len(history) <= 100 => analysisData.commitCount = Len(history)

\* A successful analysis of a repository with more than 100 commits.
C17_Witness ==
    /\ Succeeded
    /\ Len(history) > 100
    /\ analysisData.commitCount = 100

(***************************************************************************)
(* /api/fetch-details (src/app/api/fetch-details.ts): the handler.         *)
(***************************************************************************)
parts(url) == SplitOn(url, GithubComSlash)
repoPath(url) == SplitOn(parts(url)[2], Slash)
ownerOf(url) == repoPath(url)[1]
\* repoPath[1].split(".git")[0]
repoOf(url) == SplitOn(repoPath(url)[2], DotGit)[1]

DetailsReads == <<"method", "body", "GITHUB_TOKEN">>
DetailsInspects(k) == SubSeq(DetailsReads, 1, k)

analyzeState == <<request, fetchState, handlerState, parserState, other>>

DetailsRespond(k, r) ==
    /\ dPc' = "done"
    /\ dInspected' = DetailsInspects(k)
    /\ dResponses' = Append(dResponses, r)
    /\ UNCHANGED <<dRequest, dQueries, dAnswer, env, analyzeState, pageState>>

DetailsMethodNotAllowed ==
    /\ dPc = "start"
    /\ dRequest.method # "POST"
    /\ DetailsRespond(1, Detail(405, Msg("Method Not Allowed")))

\* !url || !url.includes("github.com")
DetailsUrlInvalid ==
    /\ dPc = "start"
    /\ dRequest.method = "POST"
    /\ dRequest.url = <<>> \/ ~Includes(dRequest.url, GithubCom)
    /\ DetailsRespond(2, Detail(400, Msg("Invalid GitHub URL format.")))

\* parts.length < 2
DetailsUrlNoPath ==
    /\ dPc = "start"
    /\ dRequest.method = "POST"
    /\ dRequest.url # <<>> /\ Includes(dRequest.url, GithubCom)
    /\ Len(parts(dRequest.url)) < 2
    /\ DetailsRespond(2, Detail(400, Msg("Invalid GitHub URL format.")))

\* repoPath.length < 2
DetailsOwnerRepoMissing ==
    /\ dPc = "start"
    /\ dRequest.method = "POST"
    /\ dRequest.url # <<>> /\ Includes(dRequest.url, GithubCom)
    /\ Len(parts(dRequest.url)) >= 2
    /\ Len(repoPath(dRequest.url)) < 2
    /\ DetailsRespond(2,
           Detail(400, Msg("Invalid GitHub URL format (owner/repo missing).")))

DetailsUrlAccepted ==
    /\ dRequest.method = "POST"
    /\ dRequest.url # <<>> /\ Includes(dRequest.url, GithubCom)
    /\ Len(parts(dRequest.url)) >= 2
    /\ Len(repoPath(dRequest.url)) >= 2

DetailsTokenMissing ==
    /\ dPc = "start"
    /\ DetailsUrlAccepted
    /\ env.GITHUB_TOKEN = ""
    /\ DetailsRespond(3,
           Detail(500, Msg("GITHUB_TOKEN environment variable not set.")))

\* fetch(`https://api.github.com/repos/${owner}/${repo}`, { headers })
DetailsFetch ==
    /\ dPc = "start"
    /\ DetailsUrlAccepted
    /\ env.GITHUB_TOKEN # ""
    /\ dPc' = "awaitFetch"
    /\ dInspected' = DetailsInspects(3)
    /\ dQueries' = Append(dQueries, [owner |-> ownerOf(dRequest.url),
                                     repo |-> repoOf(dRequest.url)])
    /\ UNCHANGED <<dRequest, dAnswer, dResponses, env, analyzeState, pageState>>

DetailsNetworkError(what) ==
    [text |-> "Network error while connecting to GitHub: ", status |-> 0,
     detail |-> what]
DetailsApiError ==
    [text |-> "GitHub API error: ", status |-> 0, detail |-> "msg"]
RepoDetails(q) == [status |-> 200, body |-> [full_name |-> q]]

\* What the handler answers when the remote answered r: the fetch or the
\* reading of the body as JSON may throw, which the catch reports as 500.
DetailsOutcome(r, q) ==
    IF r.failed THEN Detail(500, DetailsNetworkError("fetch failed"))
    ELSE IF ~r.json THEN Detail(500, DetailsNetworkError("Unexpected token"))
    ELSE IF ~ResponseOk(r)
         THEN IF r.status = 404 THEN Detail(404, Msg("Repository not found."))
              ELSE IF r.status = 401
                   THEN Detail(401, Msg("GitHub token is invalid or expired."))
                   ELSE Detail(r.status, DetailsApiError)
    ELSE RepoDetails(q)

DetailsAnswer(r) ==
    /\ dPc = "awaitFetch"
    /\ dPc' = "done"
    /\ dAnswer' = r
    /\ dResponses' = Append(dResponses, DetailsOutcome(r, dQueries[Len(dQueries)]))
    /\ UNCHANGED <<dRequest, dInspected, dQueries, env, analyzeState, pageState>>

AnalyzeNotCalled ==
    /\ request = [method |-> "POST", owner |-> "o", repo |-> "o"]
    /\ pc = "start"
    /\ net = [c \in Calls |-> "idle"]
    /\ issued = [c \in Calls |-> 0]
    /\ treeReqBranch = ""
    /\ promise = [o \in Ops |-> "none"]
    /\ failure = [o \in Ops |-> NoError]
    /\ answer = [c \in Calls |-> NoAnswer]
    /\ defaultBranch = ""
    /\ tree = <<>>
    /\ readmeContent = Null
    /\ commits = <<>>
    /\ history = <<>>
    /\ analysisData = NoData
    /\ modelCalls = 0
    /\ console = <<>>
    /\ responses = <<>>
    /\ inspected = <<>>
    /\ other = NoInvocation
    /\ rawText = <<>>
    /\ parseResult = NotParsed
    /\ PageLoaded

DetailsCalled ==
    /\ dRequest \in [method : Methods, url : Urls]
    /\ dPc = "start"
    /\ dInspected = <<>>
    /\ dQueries = <<>>
    /\ dAnswer = NoAnswer
    /\ dResponses = <<>>

DetailsInit ==
    /\ AnalyzeNotCalled
    /\ env \in [GITHUB_TOKEN : Tokens, AI_API_KEY : {"t"}]
    /\ DetailsCalled

DetailsNext ==
    \/ DetailsMethodNotAllowed
    \/ DetailsUrlInvalid
    \/ DetailsUrlNoPath
    \/ DetailsOwnerRepoMissing
    \/ DetailsTokenMissing
    \/ DetailsFetch
    \/ \E r \in HttpResponses : DetailsAnswer(r)

DetailsSpec == DetailsInit /\ [][DetailsNext]_vars

\* The second path segment of a URL of the shape host/owner/repo[.git],
\* and that segment without a trailing ".git".
PathOf(url) == SubSeq(url, Len(Host) + 2, Len(url))
SegmentsOf(url) == SplitOn(PathOf(url), Slash)
WithoutTrailingDotGit(seg) ==
    IF seg # <<>> /\ seg[Len(seg)] = ".git"
    THEN SubSeq(seg, 1, Len(seg) - 1) ELSE seg

\* C19: for a URL of the shape host/owner/repo or host/owner/repo.git, a
\* query of the remote names exactly the owner (first path segment) and the
\* repo, the second path segment with only a trailing ".git" removed.
C19_ResolveRepository ==
    (dRequest.url \in ShapedUrls /\ dQueries # <<>>) =>
        dQueries = <<[owner |-> SegmentsOf(dRequest.url)[1],
                      repo |-> WithoutTrailingDotGit(SegmentsOf(dRequest.url)[2])]>>

(***************************************************************************)
(* Both endpoints, each serving one request, in any interleaving.  The     *)
(* remote answers every request of /api/analyze with success.              *)
(***************************************************************************)
EndpointsInit ==
    /\ request \in [method : Methods, owner : Names, repo : Names]
    /\ env \in [GITHUB_TOKEN : Tokens, AI_API_KEY : Tokens]
    /\ pc = "start"
    /\ net = [c \in Calls |-> "idle"]
    /\ issued = [c \in Calls |-> 0]
    /\ treeReqBranch = ""
    /\ promise = [o \in Ops |-> "none"]
    /\ failure = [o \in Ops |-> NoError]
    /\ answer = [c \in Calls |-> NoAnswer]
    /\ defaultBranch = ""
    /\ tree = <<>>
    /\ readmeContent = Null
    /\ commits = <<>>
    /\ history = <<>>
    /\ analysisData = NoData
    /\ modelCalls = 0
    /\ console = <<>>
    /\ responses = <<>>
    /\ inspected = <<>>
    /\ other = NoInvocation
    /\ rawText = <<>>
    /\ parseResult = NotParsed
    /\ PageLoaded
    /\ DetailsCalled

EndpointsNext ==
    \/ MethodNotAllowed
    \/ PayloadMissing
    \/ GithubTokenMissing
    \/ AiApiKeyMissing
    \/ StartFetches
    \/ RepoAnswerOk(Ok200, "main")
    \/ TreeAnswer(Ok200, <<>>)
    \/ ReadmeAnswer(Raw200, <<"x">>)
    \/ CommitsAnswer(Ok200, <<"m1">>)
    \/ DetailsMethodNotAllowed
    \/ DetailsUrlInvalid
    \/ DetailsUrlNoPath
    \/ DetailsOwnerRepoMissing
    \/ DetailsTokenMissing
    \/ DetailsFetch
    \/ \E r \in HttpResponses : DetailsAnswer(r)

EndpointsSpec == EndpointsInit /\ [][EndpointsNext]_vars

MethodNotAllowedResponse == Detail(405, Msg("Method Not Allowed"))

\* C20: a request to /api/analyze or to /api/fetch-details whose method is
\* not POST is answered 405 'Method Not Allowed' and nothing else; the
\* handler has then read the method only (not the body, not a credential),
\* and no remote request is ever sent for it.
C20_PostOnly ==
    /\ request.method # "POST" =>
           /\ \A c \in Calls : issued[c] = 0
           /\ inspected \in {<<>>, <<"method">>}
           /\ responses \in {<<>>, <<MethodNotAllowedResponse>>}
           /\ pc = "done" =>
                  inspected = <<"method">> /\ responses = <<MethodNotAllowedResponse>>
    /\ dRequest.method # "POST" =>
           /\ dQueries = <<>>
           /\ dInspected \in {<<>>, <<"method">>}
           /\ dResponses \in {<<>>, <<MethodNotAllowedResponse>>}
           /\ dPc = "done" =>
                  dInspected = <<"method">> /\ dResponses = <<MethodNotAllowedResponse>>

\* Both endpoints refused a GET: /api/analyze one with an empty body and no
\* credentials set, /api/fetch-details one with a resolvable URL.
C20_Witness ==
    /\ request = [method |-> "GET", owner |-> "", repo |-> ""]
    /\ env = [GITHUB_TOKEN |-> "", AI_API_KEY |-> ""]
    /\ dRequest.method = "GET" /\ dRequest.url \in ShapedUrls
    /\ pc = "done" /\ dPc = "done"
    /\ responses = <<MethodNotAllowedResponse>>
    /\ dResponses = <<MethodNotAllowedResponse>>

(***************************************************************************)
(* Two invocations of the /api/analyze handler in one process.  One runs   *)
(* at a time; at every await the event loop may continue the other one     *)
(* (Switch).  What is declared inside the handler and its helpers (const,  *)
(* parameters, the promises, the response object) belongs to an            *)
(* invocation; process.env and the console belong to the process.  The     *)
(* remote's data depend on the repository asked for.                       *)
(***************************************************************************)
Invocation ==
    [request |-> request, pc |-> pc, net |-> net, issued |-> issued,
     treeReqBranch |-> treeReqBranch, promise |-> promise,
     failure |-> failure, answer |-> answer,
     defaultBranch |-> defaultBranch, tree |-> tree,
     readmeContent |-> readmeContent, commits |-> commits,
     history |-> history, analysisData |-> analysisData,
     modelCalls |-> modelCalls, responses |-> responses,
     inspected |-> inspected]

NotStarted(req) ==
    [request |-> req, pc |-> "start",
     net |-> [c \in Calls |-> "idle"], issued |-> [c \in Calls |-> 0],
     treeReqBranch |-> "", promise |-> [o \in Ops |-> "none"],
     failure |-> [o \in Ops |-> NoError], answer |-> [c \in Calls |-> NoAnswer],
     defaultBranch |-> "", tree |-> <<>>, readmeContent |-> Null,
     commits |-> <<>>, history |-> <<>>, analysisData |-> NoData,
     modelCalls |-> 0, responses |-> <<>>, inspected |-> <<>>]

Resumed(ctx) ==
    /\ request' = ctx.request
    /\ pc' = ctx.pc
    /\ net' = ctx.net
    /\ issued' = ctx.issued
    /\ treeReqBranch' = ctx.treeReqBranch
    /\ promise' = ctx.promise
    /\ failure' = ctx.failure
    /\ answer' = ctx.answer
    /\ defaultBranch' = ctx.defaultBranch
    /\ readmeContent' = ctx.readmeContent
    /\ commits' = ctx.commits
    /\ history' = ctx.history
    /\ analysisData' = ctx.analysisData
    /\ modelCalls' = ctx.modelCalls
    /\ responses' = ctx.responses
    /\ inspected' = ctx.inspected

\* `tree` declared at module level (`let tree` outside the handler): one
\* variable for both invocations.
SwitchTreeAtModuleLevel ==
    /\ other # NoInvocation
    /\ other' = [Invocation EXCEPT !.tree = other.tree]
    /\ Resumed(other)
    /\ UNCHANGED <<tree, env, console, parserState, pageState, detailsState>>

Switch ==
    /\ other # NoInvocation
    /\ other' = Invocation
    /\ Resumed(other)
    /\ tree' = other.tree
    /\ UNCHANGED <<env, console, parserState, pageState, detailsState>>

RequestO == [method |-> "POST", owner |-> "o", repo |-> "o"]
RequestP == [method |-> "POST", owner |-> "p", repo |-> "p"]
RemoteTree(owner) ==
    IF owner = "o" THEN <<[path |-> <<"a", ".", "t">>, type |-> "blob"]>>
    ELSE <<[path |-> <<"s">>, type |-> "tree"], [path |-> <<"L">>, type |-> "blob"]>>
RemoteReadme(owner) == IF owner = "o" THEN <<"x">> ELSE <<>>
RemoteCommits(owner) == IF owner = "o" THEN <<"m1">> ELSE <<>>
Err500 == [failed |-> FALSE, status |-> 500, json |-> TRUE]

TwoInit ==
    /\ request = RequestO
    /\ other = NotStarted(RequestP)
    /\ env = [GITHUB_TOKEN |-> "t", AI_API_KEY |-> "t"]
    /\ pc = "start"
    /\ net = [c \in Calls |-> "idle"]
    /\ issued = [c \in Calls |-> 0]
    /\ treeReqBranch = ""
    /\ promise = [o \in Ops |-> "none"]
    /\ failure = [o \in Ops |-> NoError]
    /\ answer = [c \in Calls |-> NoAnswer]
    /\ defaultBranch = ""
    /\ tree = <<>>
    /\ readmeContent = Null
    /\ commits = <<>>
    /\ history = <<>>
    /\ analysisData = NoData
    /\ modelCalls = 0
    /\ console = <<>>
    /\ responses = <<>>
    /\ inspected = <<>>
    /\ rawText = <<>>
    /\ parseResult = NotParsed
    /\ PageLoaded
    /\ DetailsNotCalled

TwoNext ==
    \/ StartFetches
    \/ RepoAnswerOk(Ok200, "main")
    \/ TreeAnswer(Ok200, RemoteTree(request.owner))
    \/ ReadmeAnswer(Raw200, RemoteReadme(request.owner))
    \/ CommitsAnswer(Ok200, RemoteCommits(request.owner))
    \/ CommitsAnswer(Err500, <<>>)
    \/ Switch

TwoSpec == TwoInit /\ [][TwoNext]_vars

Invocations == {Invocation, other}
ExpectedData(req) ==
    AnalysisData(req.owner, req.repo, RemoteTree(req.owner),
                 Text(RemoteReadme(req.owner)), RemoteCommits(req.owner))
\* What an invocation answers when it runs alone and the remote gives it the
\* answers it got here (the score of the mock report is drawn at random).
AloneOutcomes(ctx) ==
    IF ctx.answer["commits"] = Err500
    THEN {<<Detail(500, CatchDetail(callGitHubApi(Err500)))>>}
    ELSE {<<Report(mockAiResponse(ExpectedData(ctx.request), score))>> :
              score \in MockScores}

\* C18: with two invocations interleaved at their awaits, each one's
\* response is a response it gives alone on the same remote answers, its
\* payload is reduced from the data of its own repository, and a step of
\* one invocation leaves every variable of the other as it was.
C18_RequestIsolation ==
    /\ [](\A ctx \in Invocations :
              /\ ctx.pc # "done" => ctx.responses = <<>>
              /\ ctx.pc = "done" => ctx.responses \in AloneOutcomes(ctx)
              /\ (ctx.pc = "done" /\ ctx.responses[1].status = 200) =>
                     ctx.analysisData = ExpectedData(ctx.request)
              /\ ctx.net["tree"] = "done" => ctx.tree = RemoteTree(ctx.request.owner))
    /\ [][other' = other \/ (other' = Invocation /\ Invocation' = other)]_vars

\* One invocation has answered 200 while the other, started and holding its
\* own tree, still awaits an answer.
C18_Witness ==
    /\ Succeeded
    /\ other.pc = "awaitAll"
    /\ other.tree # <<>>
    /\ other.tree # tree

\* The gates of /api/analyze in the order of the code, and the response of
\* each one.
FirstFailingGate ==
    IF request.method # "POST" THEN 1
    ELSE IF request.owner = "" \/ request.repo = "" THEN 2
    ELSE IF env.GITHUB_TOKEN = "" THEN 3
    ELSE IF env.AI_API_KEY = "" THEN 4
    ELSE 5
GateResponse(k) ==
    IF k = 1 THEN Detail(405, Msg("Method Not Allowed"))
    ELSE IF k = 2 THEN Detail(400, Msg("Owner and repository name are required."))
    ELSE IF k = 3 THEN Detail(500, Msg("GITHUB_TOKEN environment variable not set."))
    ELSE Detail(500, Msg("AI_API_KEY environment variable not set."))

\* C30: the gates are applied in the order method, owner/repo, GITHUB_TOKEN,
\* AI_API_KEY, fetches.  The first gate that fails alone determines the
\* response, whatever the later gates would say; the handler has then read
\* nothing beyond that gate; the fetches start only when all four pass.
C30_GateOrder ==
    /\ FirstFailingGate <= 4 =>
           /\ \A c \in Calls : issued[c] = 0
           /\ pc = "done" =>
                  /\ responses = <<GateResponse(FirstFailingGate)>>
                  /\ inspected = Inspects(FirstFailingGate)
    /\ FirstFailingGate = 5 =>
           /\ pc # "start" => inspected = Inspects(4)
           /\ \A i \in 1..Len(responses) :
                  responses[i] \notin {GateResponse(k) : k \in 1..4}

\* A POST with an empty owner and no credential set was answered 400.
C30_Witness ==
    /\ request.method = "POST" /\ request.owner = ""
    /\ env = [GITHUB_TOKEN |-> "", AI_API_KEY |-> ""]
    /\ pc = "done"
    /\ responses[1].status = 400
    /\ inspected = <<"method", "body">>

\* C28: the handler sends at most one response, and once a response is sent
\* (in particular a fail-fast failure) no later step - a fetch that settles
\* afterwards, successfully or not - adds a response or alters it.
C28_SingleResponse ==
    /\ [](Len(responses) <= 1 /\ (responses # <<>> <=> pc = "done"))
    /\ [][responses # <<>> => (responses' = responses /\ pc' = pc)]_vars

\* After the failure response two operations have rejected (the second one
\* after the response) and a third has fulfilled.
C28_Witness ==
    /\ Failed
    /\ Len(responses) = 1
    /\ promise["fetchRepoTree"] = "rejected"
    /\ promise["fetchCommits"] = "rejected"
    /\ promise["fetchFileContent"] = "fulfilled"

(***************************************************************************)
(* Progress: a job that is ready runs, and a remote request that was sent  *)
(* is answered (with success, an error status or a connection failure).    *)
(***************************************************************************)
\* Every answer the remote can give to each request (every status, a
\* connection failure), with one tree, README and commit list.
SettleNext ==
    \/ MethodNotAllowed
    \/ PayloadMissing
    \/ GithubTokenMissing
    \/ AiApiKeyMissing
    \/ StartFetches
    \/ \E r \in OkResponses : RepoAnswerOk(r, "main")
    \/ \E r \in ErrorResponses : RepoAnswerError(r)
    \/ \E r \in OkResponses : TreeAnswer(r, RemoteTree("o"))
    \/ \E r \in ErrorResponses : TreeAnswer(r, <<>>)
    \/ \E r \in RawResponses :
           ReadmeAnswer(r, IF ResponseOk(r) /\ ~r.failed THEN <<"x">> ELSE <<>>)
    \/ \E r \in OkResponses : CommitsAnswer(r, <<"m1">>)
    \/ \E r \in ErrorResponses : CommitsAnswer(r, <<>>)

FairSpec == Init /\ [][SettleNext]_vars /\ WF_vars(SettleNext)

\* C29: if every remote request that is sent is eventually answered, the
\* handler eventually answers its request with one response, a report or a
\* failure: it never waits forever.
C29_Termination == <>(pc = "done" /\ Len(responses) = 1)

\* The handler has answered and none of its four remote requests is still
\* in flight.
C29_Witness ==
    /\ pc = "done"
    /\ issued["repo"] = 1 /\ issued["tree"] = 1
    /\ \A c \in Calls : net[c] = "done"

DetailsAnswered == dPc = "done" /\ dQueries # <<>>
RemoteReached == ~dAnswer.failed
IsNetworkError(r) ==
    r.status = 500 /\ r.body.detail.text = "Network error while connecting to GitHub: "

\* C25: when the remote answered fetch-details' request with a non-success
\* status, the handler responds with that status (404, 401 or whatever the
\* remote's status is); a 500 response with a 'Network error' detail is sent
\* only when the remote could not be reached.
C25_StatusPassThrough ==
    DetailsAnswered =>
        /\ (RemoteReached /\ ~ResponseOk(dAnswer)) =>
               dResponses[1].status = dAnswer.status
        /\ IsNetworkError(dResponses[1]) => ~RemoteReached

(***************************************************************************)
(* The app-router implementation of fetch-details (page source bundle,     *)
(* `export async function POST`): what it answers to a body with the given *)
(* url, with the given GITHUB_TOKEN, when the remote answers r.            *)
(***************************************************************************)
routeParts(url) == SplitOn(url, GithubComSlash)
routeRepoPath(url) == SplitOn(routeParts(url)[2], Slash)
routeOwner(url) == routeRepoPath(url)[1]
\* The second path segment as it is.
routeRepoWhole(url) == routeRepoPath(url)[2]
routeRepo(url) == SplitOn(routeRepoPath(url)[2], DotGit)[1]

\* The checks before the fetch: the response of the first that fails, or
\* NoAnswer when all pass.
RouteRefusal(url, token) ==
    IF url = <<>> \/ ~Includes(url, GithubCom)
    THEN Detail(400, Msg("Invalid GitHub URL format."))
    ELSE IF Len(routeParts(url)) < 2
    THEN Detail(400, Msg("Invalid GitHub URL format."))
    ELSE IF Len(routeRepoPath(url)) < 2
    THEN Detail(400, Msg("Invalid GitHub URL format (owner/repo missing)."))
    ELSE IF token = ""
    THEN Detail(500, Msg("GITHUB_TOKEN environment variable not set."))
    ELSE NoAnswer

RouteQueries(url, token) ==
    IF RouteRefusal(url, token) = NoAnswer
    THEN <<[owner |-> routeOwner(url), repo |-> routeRepo(url)]>>
    ELSE <<>>

RouteOutcome(r, q) ==
    IF r.failed
    THEN Detail(500, [text |-> "Network error while connecting to GitHub: ",
                      status |-> 0, detail |-> "fetch failed"])
    ELSE IF ~r.json
    THEN Detail(500, [text |-> "Network error while connecting to GitHub: ",
                      status |-> 0, detail |-> "Unexpected token"])
    ELSE IF ~(r.status >= 200 /\ r.status <= 299)
    THEN IF r.status = 404 THEN Detail(404, Msg("Repository not found."))
         ELSE IF r.status = 401
         THEN Detail(401, Msg("GitHub token is invalid or expired."))
         ELSE Detail(r.status,
                     [text |-> "GitHub API error: ", status |-> 0, detail |-> "msg"])
    ELSE [status |-> 200, body |-> [full_name |-> q]]

POST(url, token, r) ==
    IF RouteRefusal(url, token) # NoAnswer
    THEN RouteRefusal(url, token)
    ELSE RouteOutcome(r, RouteQueries(url, token)[1])

\* C27: on a POST request the serverless handler and the app-router handler
\* agree: for every url, GITHUB_TOKEN setting and answer of the remote, the
\* serverless handler asks the remote what the app-router handler asks, and
\* answers with the same status and the same body.
C27_HandlersEquivalent ==
    dRequest.method = "POST" =>
        /\ dPc # "start" =>
               dQueries = RouteQueries(dRequest.url, env.GITHUB_TOKEN)
        /\ dPc = "awaitFetch" =>
               RouteRefusal(dRequest.url, env.GITHUB_TOKEN) = NoAnswer
        /\ dPc = "done" =>
               dResponses = <<POST(dRequest.url, env.GITHUB_TOKEN, dAnswer)>>

\* A POST for https://github.com/o/r.git that the remote answered 404.
C27_Witness ==
    /\ dRequest.method = "POST"
    /\ dRequest.url = Host \o Slash \o <<"o">> \o Slash \o <<"r", ".git">>
    /\ dPc = "done"
    /\ dAnswer = [failed |-> FALSE, status |-> 404, json |-> TRUE]
    /\ dResponses[1].status = 404

\* A URL that begins with https://github.com/ and has a non-empty first and
\* a non-empty second path segment.
Resolvable(url) ==
    /\ Len(url) > Len(Host) + 1
    /\ SubSeq(url, 1, Len(Host) + 1) = Host \o Slash
    /\ Len(SegmentsOf(url)) >= 2
    /\ SegmentsOf(url)[1] # <<>>
    /\ SegmentsOf(url)[2] # <<>>

\* C26: fetch-details sends a remote request only with a non-empty owner and
\* a non-empty repository name, and a POST whose URL does not yield both is
\* answered 400.
C26_RejectsUnresolvableUrl ==
    /\ \A i \in 1..Len(dQueries) :
           dQueries[i].owner # <<>> /\ dQueries[i].repo # <<>>
    /\ (dRequest.method = "POST" /\ dPc = "done" /\ ~Resolvable(dRequest.url)) =>
           dResponses[1].status = 400

(***************************************************************************)
(* The page (app/page.tsx, `Home`).  A step is one event handler or one    *)
(* continuation after an await, followed by the render of the new state:   *)
(* React renders after a click before the next event is delivered, so a    *)
(* control can be used only if the last render shows it enabled.           *)
(***************************************************************************)
\* What can be typed: the URLs fetch-details is modelled for.
PageUrls == Urls
PageRepoDetails == {[full_name |-> "o/r"], [full_name |-> "p/q"]}
PageReports == {mockAiResponse(ExpectedData(RequestO), score) : score \in {60, 99}}

\* What a call of an endpoint can come back with: a 2xx answer with its
\* body, another status with or without a `detail`, or an exception (the
\* connection failed, the body was not JSON) with or without a message.
Ok(body) == [kind |-> "ok", body |-> body]
NotOk(detail) == [kind |-> "notOk", detail |-> detail]
Thrown(message) == [kind |-> "thrown", message |-> message]
FetchFailures ==
    {NotOk("Repository not found."), NotOk(""), Thrown("Failed to fetch"), Thrown("")}
GradeFailures ==
    {NotOk("GitHub resource not found."), NotOk(""), Thrown("Failed to fetch"), Thrown("")}
FetchReplies == {Ok(d) : d \in PageRepoDetails} \cup FetchFailures
GradeReplies == {Ok(d) : d \in PageReports} \cup GradeFailures

\* errorData.detail || fallback, err.message || unexpected
ErrorText(r, fallback, unexpected) ==
    IF r.kind = "notOk" THEN (IF r.detail = "" THEN fallback ELSE r.detail)
    ELSE (IF r.message = "" THEN unexpected ELSE r.message)

\* onChange of the input, rendered in "initial" and "fetching" and disabled
\* in "fetching".
TypeUrl(u) ==
    /\ appState = "initial"
    /\ u # githubUrl
    /\ githubUrl' = u
    /\ error' = JsNull
    /\ UNCHANGED <<appState, repoDetails, analysisReport, fetching, grading, reply>>
    /\ UNCHANGED <<env, analyzeState, detailsState>>

\* handleFetch
handleFetch ==
    IF githubUrl = <<>> \/ ~Includes(githubUrl, GithubCom)
    THEN /\ error' = Some("Please enter a valid GitHub repository URL.")
         /\ UNCHANGED <<appState, fetching>>
    ELSE /\ appState' = "fetching"
         /\ error' = JsNull
         /\ fetching' = fetching + 1

\* The Fetch button without `disabled`.
ClickFetchAlwaysEnabled ==
    /\ appState \in {"initial", "fetching"}
    /\ fetching < MaxInFlight
    /\ handleFetch
    /\ UNCHANGED <<githubUrl, repoDetails, analysisReport, grading, reply>>
    /\ UNCHANGED <<env, analyzeState, detailsState>>

\* The Fetch button: rendered in "initial" and "fetching",
\* disabled={appState === "fetching" || !githubUrl}
ClickFetch ==
    /\ appState \in {"initial", "fetching"}
    /\ ~(appState = "fetching" \/ githubUrl = <<>>)
    /\ fetching < MaxInFlight
    /\ handleFetch
    /\ UNCHANGED <<githubUrl, repoDetails, analysisReport, grading, reply>>
    /\ UNCHANGED <<env, analyzeState, detailsState>>

\* A failed fetch that sets no error.
FetchFailedSilently(r) ==
    /\ appState' = "initial"
    /\ UNCHANGED <<error, repoDetails>>

\* The catch block of handleFetch.
FetchFailed(r) ==
    /\ error' = Some(ErrorText(r, "Failed to fetch repository details.",
                               "An unexpected error occurred during fetch."))
    /\ appState' = "initial"
    /\ UNCHANGED repoDetails

\* handleFetch after `await fetch("/api/fetch-details", ...)`.
FetchAnswer(r) ==
    /\ fetching > 0
    /\ fetching' = fetching - 1
    /\ reply' = r
    /\ IF r.kind = "ok"
       THEN /\ repoDetails' = Some(r.body)
            /\ appState' = "confirming"
            /\ UNCHANGED error
       ELSE FetchFailed(r)
    /\ UNCHANGED <<githubUrl, analysisReport, grading>>
    /\ UNCHANGED <<env, analyzeState, detailsState>>

\* handleGrade up to `await fetch("/api/analyze", ...)`; the button is
\* rendered in "confirming" when repoDetails is not null.
ClickGrade ==
    /\ appState = "confirming"
    /\ repoDetails # JsNull
    /\ grading < MaxInFlight
    /\ appState' = "grading"
    /\ error' = JsNull
    /\ analysisReport' = JsNull
    /\ grading' = grading + 1
    /\ UNCHANGED <<githubUrl, repoDetails, fetching, reply>>
    /\ UNCHANGED <<env, analyzeState, detailsState>>

\* A failed analysis that goes back to the start.
GradeFailedToInitial(r) ==
    /\ error' = Some(ErrorText(r, "Failed to analyze repository.",
                               "An unexpected error occurred during analysis."))
    /\ appState' = "initial"
    /\ UNCHANGED analysisReport

\* The catch block of handleGrade.
GradeFailed(r) ==
    /\ error' = Some(ErrorText(r, "Failed to analyze repository.",
                               "An unexpected error occurred during analysis."))
    /\ appState' = "confirming"
    /\ UNCHANGED analysisReport

\* A successful analysis that shows the results without keeping the report.
GradeSucceededWithoutReport(r) ==
    /\ appState' = "results"
    /\ UNCHANGED <<error, analysisReport>>

GradeSucceeded(r) ==
    /\ analysisReport' = Some(r.body)
    /\ appState' = "results"
    /\ UNCHANGED error

\* handleGrade after `await fetch("/api/analyze", ...)`.
GradeAnswer(r) ==
    /\ grading > 0
    /\ grading' = grading - 1
    /\ reply' = r
    /\ IF r.kind = "ok" THEN GradeSucceeded(r) ELSE GradeFailed(r)
    /\ UNCHANGED <<githubUrl, repoDetails, fetching>>
    /\ UNCHANGED <<env, analyzeState, detailsState>>

\* handleReset: "Try a Different URL" in "confirming", "Analyze Another
\* Repository" in "results"; neither is rendered when the state's data is
\* null.
ClickReset ==
    /\ \/ appState = "confirming" /\ repoDetails # JsNull
       \/ appState = "results" /\ repoDetails # JsNull /\ analysisReport # JsNull
    /\ githubUrl' = <<>>
    /\ appState' = "initial"
    /\ error' = JsNull
    /\ repoDetails' = JsNull
    /\ analysisReport' = JsNull
    /\ UNCHANGED <<fetching, grading, reply>>
    /\ UNCHANGED <<env, analyzeState, detailsState>>

PageInit ==
    /\ AnalyzeNotCalled
    /\ DetailsNotCalled
    /\ env = [GITHUB_TOKEN |-> "t", AI_API_KEY |-> "t"]

PageNext ==
    \/ \E u \in PageUrls : TypeUrl(u)
    \/ ClickFetch
    \/ \E r \in FetchReplies : FetchAnswer(r)
    \/ ClickGrade
    \/ \E r \in GradeReplies : GradeAnswer(r)
    \/ ClickReset

PageSpec == PageInit /\ [][PageNext]_vars

Transitions ==
    {<<"initial", "fetching">>, <<"fetching", "confirming">>,
     <<"fetching", "initial">>, <<"confirming", "grading">>,
     <<"grading", "results">>, <<"grading", "confirming">>,
     <<"confirming", "initial">>, <<"results", "initial">>}

\* C21: appState changes only along initial->fetching, fetching->confirming
\* (the fetch succeeded), fetching->initial (it failed), confirming->grading,
\* grading->results (the analysis succeeded), grading->confirming (it
\* failed), and confirming->initial, results->initial (reset, which clears
\* the page's data).
C21_LinearFlow ==
    [][appState' # appState =>
           /\ <<appState, appState'>> \in Transitions
           /\ appState \in {"fetching", "grading"} =>
                  /\ reply' # JsNull
                  /\ appState = "fetching" =>
                         (appState' = "confirming" <=> reply'.kind = "ok")
                  /\ appState = "grading" =>
                         (appState' = "results" <=> reply'.kind = "ok")
           /\ (appState \in {"confirming", "results"} /\ appState' = "initial") =>
                  (githubUrl' = <<>> /\ repoDetails' = JsNull /\ analysisReport' = JsNull)]_vars

\* The results are shown, after a fetch and an analysis that succeeded.
C21_Witness ==
    /\ appState = "results"
    /\ reply \in {Ok(d) : d \in PageReports}
    /\ githubUrl # <<>>

\* A step taken while a call is awaiting its answer receives that answer.
OnlyTheAnswer ==
    appState \in {"fetching", "grading"} =>
        /\ fetching' + grading' = 0
        /\ reply' # JsNull
        /\ githubUrl' = githubUrl

\* C22: at most one call is awaiting its answer; a call of fetch-details
\* awaits exactly while appState is "fetching" and a call of analyze exactly
\* while it is "grading", so the answer arrives in the state that sent the
\* call; and in those two states the page does nothing but receive the
\* answer: no control that starts a call or a reset can be used.
C22_OneRequestInFlight ==
    /\ [](/\ fetching + grading <= 1
          /\ fetching = 1 <=> appState = "fetching"
          /\ grading = 1 <=> appState = "grading")
    /\ [][OnlyTheAnswer]_vars

\* The analysis call is in flight, the fetch-details call has been answered.
C22_Witness ==
    /\ appState = "grading"
    /\ grading = 1
    /\ fetching = 0
    /\ reply \in {Ok(d) : d \in PageRepoDetails}

\* The step in which the page receives a failure of the fetch-details call.
FetchFailureArrives ==
    /\ fetching = 1
    /\ fetching' = 0
    /\ reply' \in FetchFailures

\* The step in which the page receives a failure of the analyze call.
GradeFailureArrives ==
    /\ grading = 1
    /\ grading' = 0
    /\ reply' \in GradeFailures

\* What the page shows after a failure, call by call.
RecoversFromFailure ==
    /\ FetchFailureArrives =>
           (appState' = "initial" /\ error' # JsNull /\ error'.value # "")
    /\ GradeFailureArrives =>
           /\ appState' = "confirming"
           /\ error' # JsNull
           /\ error'.value # ""
           /\ repoDetails' = repoDetails
           /\ repoDetails' # JsNull
           /\ analysisReport' = JsNull

\* C23: a failed fetch-details call ends in appState "initial" with an error
\* message; a failed analyze call ends in appState "confirming" with an error
\* message, the repository details it was sent for and no report, so that
\* the Grade button can be pressed again.
C23_FailureRecovery ==
    [][RecoversFromFailure]_vars

\* The analysis failed: the confirmation screen is back with the error.
C23_Witness ==
    /\ appState = "confirming"
    /\ reply \in GradeFailures
    /\ error # JsNull
    /\ repoDetails # JsNull
    /\ analysisReport = JsNull

\* What the rendering branches rely on: the data each screen shows is there.
ScreenHasItsData ==
    /\ appState \in {"confirming", "grading", "results"} => repoDetails # JsNull
    /\ appState = "results" => analysisReport # JsNull

\* C24: whenever appState is "confirming", "grading" or "results" repoDetails
\* is not null, and whenever it is "results" analysisReport is not null: the
\* two "should not happen" branches of renderContent are never taken.
C24_DataInvariant ==
    ScreenHasItsData

\* The report is shown with the repository details it was computed for.
C24_Witness ==
    /\ appState = "results"
    /\ repoDetails \in {Some(d) : d \in PageRepoDetails}
    /\ analysisReport \in {Some(d) : d \in PageReports}
    /\ error = JsNull

====
